---- MODULE Spec2Model ----
(***************************************************************************)
(* Semantic compatibility engine of backend/app/services/semantic_service  *)
(* (EmbeddingGenerator, SimilarityCalculator, SemanticService) and the     *)
(* wait_for call of routers/analysis.analyze_resume that drives it, as a   *)
(* state machine over asyncio's single-threaded event loop plus the        *)
(* default executor's worker threads; with the retrieval of a stored        *)
(* analysis (routers/analysis.get_analysis) and the Gemini client of        *)
(* services/ai_service with its circuit breaker.                            *)
(***************************************************************************)
EXTENDS Integers, Sequences, FiniteSets, TLC

VARIABLES
    \* EmbeddingGenerator fields (semantic_service.py 24-29)
    _model,              \* None, or the identity of the loaded model instance
    _embedding_cache,    \* cache key -> stored vector
    max_chunk_length,
    chunk_overlap,
    \* one analyze_resume request per r (analysis.py 154-169)
    reqPc,               \* "idle" | "gather" | "returned" | "failed" | "cancelled"
    reqText,             \* [resume |-> text id, job |-> text id]
    reqOutcome,          \* "pending" | "ok" | "408" | "422"
    reqResult,           \* None, a CompatibilityAnalysis, or the raised error
    gather_exc,          \* exception the gather future was completed with
    \* the two generate_embedding tasks of each request
    taskPc,              \* "idle" | "ready" | "chunking" | "await_encode"
                         \* | "done" | "failed" | "cancelled"
    taskVia,             \* "none" | "hit" | "miss": outcome of the cache check
    taskModel,           \* model instance the task obtained from _get_model
    taskResult,          \* None, the returned vector, or the raised error
    worker,              \* executor job of the task: "none" | "busy" | "done"
    running,             \* task occupying the event-loop thread, or NoTask
    \* history
    loads,               \* per request: SentenceTransformer(...) constructions
    encodes,             \* per task: model.encode calls submitted
    \* locals of the _chunk_text call in progress (semantic_service.py 68-88)
    chunk_pc,            \* "idle" | "call" | "loop" | "body" | "returned"
    nwords,              \* len(words)
    chunk_start,         \* start
    chunk_end,           \* end
    chunks,              \* chunks, each words[start:end] kept as its slice
    \* one call of a KeywordAnalyzer method (semantic_service.py 340-624)
    kw_pc,               \* "idle" | "call" | "returned"
    kw_in,               \* [fn |-> method name, ...arguments]
    kw_out,              \* the returned value
    \* GeminiClient (ai_service.py 91-256)
    circuit_breaker,     \* the CircuitBreaker's fields (ai_service.py 40-45)
    now,                 \* time.time(), in seconds
    callPc,              \* per generate_response call: "idle" | "in_flight"
                         \* | "sleep"
    attempt,             \* per call: attempt of the retry loop
    callOutcome,         \* per call: how its last run ended
    \* history
    failed_calls         \* calls that failed since the last success

vars == <<_model, _embedding_cache, max_chunk_length, chunk_overlap,
          reqPc, reqText, reqOutcome, reqResult, gather_exc,
          taskPc, taskVia, taskModel, taskResult, worker, running,
          loads, encodes, chunk_pc, nwords, chunk_start, chunk_end, chunks,
          kw_pc, kw_in, kw_out,
          circuit_breaker, now, callPc, attempt, callOutcome, failed_calls>>

engineVars == <<_model, _embedding_cache, reqPc, reqText, reqOutcome,
                reqResult, gather_exc, taskPc, taskVia, taskModel,
                taskResult, worker, running, loads, encodes>>

chunkVars == <<chunk_pc, nwords, chunk_start, chunk_end, chunks>>

kwVars == <<kw_pc, kw_in, kw_out>>

breakerVars == <<circuit_breaker, now, callPc, attempt, callOutcome,
                 failed_calls>>

NoTask == <<>>

-----------------------------------------------------------------------------
(* Bounds *)

\* concurrent analyze_resume requests
NumRequests == 2
\* concurrent generate_response calls
NumCalls == 2
\* the clock stops at this many seconds
MaxClock == 120
\* iterations of _chunk_text's loop whose chunk is recorded; later appends
\* are not recorded (the program's list keeps growing)
MaxChunks == 4
\* largest word count, and largest window, of the small _chunk_text inputs
MaxSmallWords == 9
MaxSmallWindow == 4

-----------------------------------------------------------------------------
(* Text: a str is a sequence of one-character strings *)

Min(a, b) == IF a < b THEN a ELSE b

Rep(c, n) == [i \in 1..n |-> c]

WhitespaceChars == {" ", "\t", "\n"}
\* \w of the regex, over the alphabet of the inputs
WordChars == {"a", "b", "A", "B", "0", "_"}
AllowedPunct == {"-", ".", ",", ";", ":", "!", "?"}

IsSpace(c) == c \in WhitespaceChars

Lower(c) == IF c = "A" THEN "a" ELSE IF c = "B" THEN "b" ELSE c

\* str.strip()
Strip(t) ==
    LET nonsp == SelectSeq([i \in 1..Len(t) |-> i], LAMBDA i : ~IsSpace(t[i]))
    IN  IF nonsp = <<>> THEN <<>>
        ELSE SubSeq(t, nonsp[1], nonsp[Len(nonsp)])

\* re.sub(r'\s+', ' ', t): every maximal run of whitespace becomes one space
CollapseWhitespace(t) ==
    LET idx  == [i \in 1..Len(t) |-> i]
        keep == SelectSeq(idx, LAMBDA i : ~IsSpace(t[i]) \/ i = 1 \/ ~IsSpace(t[i-1]))
    IN  [k \in 1..Len(keep) |-> IF IsSpace(t[keep[k]]) THEN " " ELSE t[keep[k]]]

\* re.sub(r'[^\w\s\-\.\,\;\:\!\?]', ' ', t): each other character becomes a space
ReplaceSpecial(t) ==
    [i \in 1..Len(t) |->
        IF t[i] \in WordChars \cup WhitespaceChars \cup AllowedPunct
        THEN t[i] ELSE " "]

\* str.rfind('.') as a 0-based index, -1 when absent
RFindDot(t) ==
    LET dots == SelectSeq([i \in 1..Len(t) |-> i], LAMBDA i : t[i] = ".")
    IN  IF dots = <<>> THEN -1 ELSE dots[Len(dots)] - 1

max_length == 2000

\* lines 53-61; last_sentence > max_length * 0.8 compared as 10*last > 8*max
Truncate(t) ==
    IF Len(t) > max_length
    THEN LET truncated == SubSeq(t, 1, max_length)
             last_sentence == RFindDot(truncated)
         IN  IF 10 * last_sentence > 8 * max_length
             THEN SubSeq(truncated, 1, last_sentence + 1)
             ELSE truncated
    ELSE t

_preprocess_text(text) ==
    LET t1 == CollapseWhitespace(Strip(text))
        t2 == ReplaceSpecial(t1)
        t3 == Truncate(t2)
    IN  [i \in 1..Len(t3) |-> Lower(t3[i])]

\* len(text.split()): words are the maximal runs of non-whitespace
WordCount(t) ==
    Cardinality({i \in 1..Len(t) :
                    ~IsSpace(t[i]) /\ (i = 1 \/ IsSpace(t[i-1]))})

\* hashlib.md5(...).hexdigest(): the digest is kept as the tagged text it
\* was computed from, so equal keys mean equal preprocessed texts
_get_cache_key(text) == <<"md5">> \o text

-----------------------------------------------------------------------------
(* Inputs *)

MinTextLength == 50

\* more than max_chunk_length one-letter words, within the 2000 characters
\* that _preprocess_text keeps
LongWords == 514

WordsText(n) == [i \in 1..(IF n = 0 THEN 0 ELSE 2 * n - 1) |->
                    IF i % 2 = 1 THEN "a" ELSE " "]

Texts ==
    << Rep("a", MinTextLength),
       Rep("A", MinTextLength),
       Rep("a", MinTextLength - 1) \o <<"b">>,
       Rep(".", MinTextLength),
       WordsText(LongWords),
       Rep("@", MinTextLength) >>

TextIds == 1..Len(Texts)

\* (resume_text, job_description) pairs a request is made with
Inputs == {<<1, 2>>, <<1, 3>>, <<4, 3>>, <<5, 1>>, <<6, 1>>}

\* the texts are fixed, so each function of a text is tabulated once
Enumerated(t) == SubSeq(t, 1, Len(t))
Tabulated(f) == Enumerated([i \in TextIds |-> f[i]])
ProcessedTable == Tabulated([i \in TextIds |-> Enumerated(_preprocess_text(Texts[i]))])
KeyTable == Tabulated([i \in TextIds |-> _get_cache_key(ProcessedTable[i])])
RawKeyTable == Tabulated([i \in TextIds |-> _get_cache_key(Enumerated(Texts[i]))])
WordCountTable == Tabulated([i \in TextIds |-> WordCount(ProcessedTable[i])])

-----------------------------------------------------------------------------
(* Vectors: numpy float arrays as fixed-point integers; a division of a    *)
(* zero vector by its zero norm gives nan in every component               *)

Scale == 1000

Vec(x) == [nan |-> FALSE, v |-> x]
NaNVec == [nan |-> TRUE, v |-> <<>>]
NoVec == [nan |-> FALSE, v |-> <<>>]

\* floor of the square root; every vector of the model has components of
\* at most Scale in absolute value and a norm of at most 2 * Scale
ISqrt(n) ==
    LET step == 50
        h == CHOOSE i \in 0..((2 * Scale) \div step) :
                 (i * step) * (i * step) <= n
                     /\ ((i + 1) * step) * ((i + 1) * step) > n
    IN  CHOOSE k \in (h * step)..(h * step + step - 1) :
            k * k <= n /\ (k + 1) * (k + 1) > n

\* the inner product of two arrays of one length
RECURSIVE Dot(_, _)
Dot(x, y) == IF Len(x) = 0 THEN 0 ELSE x[1] * y[1] + Dot(Tail(x), Tail(y))

\* np.linalg.norm
Norm(x) == ISqrt(Dot(x, x))

\* model.encode of the external sentence-transformer: a deterministic
\* function of the text it is given, which can be the zero vector
ModelEncode(text) ==
    << IF \E i \in 1..Len(text) : text[i] = "a" THEN 4 ELSE 0,
       IF \E i \in 1..Len(text) : text[i] = "b" THEN 3 ELSE 0 >>

\* line 144: embedding / np.linalg.norm(embedding); numpy does not raise on
\* 0/0, it yields nan
L2Normalize(x) ==
    IF Norm(x) = 0 THEN NaNVec
    ELSE Vec([i \in 1..Len(x) |-> (x[i] * Scale) \div Norm(x)])

-----------------------------------------------------------------------------
(* EmbeddingGenerator._chunk_text, one loop iteration per step *)

DefaultMaxChunkLength == 512
DefaultChunkOverlap == 50

Slice(s, e) == [start |-> s, end |-> e]

\* chunks.append(chunk), recorded up to MaxChunks entries
RecordChunk(cs, c) == IF Len(cs) < MaxChunks THEN Append(cs, c) ELSE cs

\* lines 70-76 for a text of n words
ChunkTextEnter(n) ==
    /\ nwords' = n
    /\ chunk_start' = 0
    /\ chunk_end' = 0
    /\ IF n <= max_chunk_length
       THEN chunk_pc' = "returned" /\ chunks' = <<Slice(0, n)>>
       ELSE chunk_pc' = "loop" /\ chunks' = <<>>

\* line 85: if start >= len(words): break
LoopBreaks(start, n) == start >= n

\* lines 78-88, one step for the while test (line 78) and one for an
\* iteration of the body with its break test (lines 79-86)
ChunkTextIterate ==
    /\ chunk_pc \in {"loop", "body"}
    /\ IF chunk_pc = "loop"
       THEN /\ chunk_pc' = IF chunk_start < nwords THEN "body" ELSE "returned"
            /\ UNCHANGED <<chunks, chunk_end, chunk_start>>
       ELSE LET end == Min(chunk_start + max_chunk_length, nwords)
                start == end - chunk_overlap
            IN  /\ chunks' = RecordChunk(chunks, Slice(chunk_start, end))
                /\ chunk_end' = end
                /\ chunk_start' = start
                /\ chunk_pc' = IF LoopBreaks(start, nwords)
                               THEN "returned" ELSE "loop"
    /\ UNCHANGED nwords

-----------------------------------------------------------------------------
(* Errors: a SemanticAnalysisError is kept as the chain of message         *)
(* prefixes that str(e) shows, outermost first                             *)

NoError == <<>>

\* _get_model, line 40
LoadError == <<"Failed to load embedding model">>
\* generate_embedding, lines 156-158
EmbeddingError(e) == <<"Embedding generation failed">> \o e
\* calculate_cosine_similarity lines 210-212 inside
\* calculate_similarity_with_metrics lines 335-337
ScorerError(cause) ==
    <<"Similarity calculation with metrics failed",
      "Similarity calculation failed", cause>>

\* a handler that re-raises the component's error as it is
PassThrough(e) == e

\* analyze_compatibility, lines 715-717: except Exception around the whole
\* body, whatever the type of e
OrchestratorError(e) == <<"Compatibility analysis failed">> \o e

-----------------------------------------------------------------------------
(* SimilarityCalculator *)

\* a value that is not clipped
NoClip(x, lo, hi) == x

\* np.clip
Clip(x, lo, hi) == IF x < lo THEN lo ELSE IF x > hi THEN hi ELSE x

\* line 202, sklearn's cosine_similarity of two rows of one length: the
\* rows are divided by their norms (a zero row stays zero) and multiplied;
\* the rounding of the norms lets the quotient leave [-1, 1]
RawCosine(x, y) ==
    IF Norm(x) = 0 \/ Norm(y) = 0 THEN 0
    ELSE (Dot(x, y) * Scale) \div (Norm(x) * Norm(y))

\* a scorer that cuts the longer vector down to the length of the shorter
CosineCoercing(a, b) ==
    LET n == Min(Len(a.v), Len(b.v))
    IN  IF a.nan \/ b.nan
        THEN [err |-> ScorerError("Input contains NaN"), sim |-> 0]
        ELSE [err |-> NoError,
              sim |-> Clip(RawCosine(SubSeq(a.v, 1, n), SubSeq(b.v, 1, n)),
                           -Scale, Scale)]

\* lines 194-212: sklearn's cosine_similarity rejects nan input and
\* mismatched dimensions with a ValueError, which the except clause
\* re-raises; the result is clipped
CosineOutcome(a, b) ==
    IF a.nan \/ b.nan THEN [err |-> ScorerError("Input contains NaN"), sim |-> 0]
    ELSE IF Len(a.v) # Len(b.v) \/ Len(a.v) = 0
    THEN [err |-> ScorerError("Incompatible dimension"), sim |-> 0]
    ELSE [err |-> NoError, sim |-> Clip(RawCosine(a.v, b.v), -Scale, Scale)]

\* a percentage that maps [0, 1] instead of [-1, 1] onto [0, 100]
UnshiftedPercentage(similarity) == Clip(similarity * 100, 0, 100 * Scale)

\* lines 226-230, the percentage in units of 1/Scale
normalize_to_percentage(similarity) ==
    Clip(((similarity + Scale) * 100) \div 2, 0, 100 * Scale)

\* lines 252-259, with the thresholds of lines 177-178
get_confidence_level(similarity) ==
    LET abs_similarity == IF similarity < 0 THEN -similarity ELSE similarity
        min_confidence_threshold == Scale \div 10
        high_confidence_threshold == (7 * Scale) \div 10
    IN  IF abs_similarity >= high_confidence_threshold THEN "high"
        ELSE IF abs_similarity >= min_confidence_threshold THEN "medium"
        ELSE "low"

\* lines 271-297
interpret_similarity(similarity) ==
    LET percentage == normalize_to_percentage(similarity)
        match_quality == IF percentage >= 80 * Scale THEN "excellent"
                         ELSE IF percentage >= 60 * Scale THEN "good"
                         ELSE IF percentage >= 40 * Scale THEN "moderate"
                         ELSE IF percentage >= 20 * Scale THEN "weak"
                         ELSE "poor"
    IN  [percentage |-> percentage,
         confidence |-> get_confidence_level(similarity),
         match_quality |-> match_quality,
         raw_similarity |-> similarity]

\* no metrics: the call raised err
NoMetrics(err) ==
    [err |-> err, percentage |-> 0, confidence |-> "", match_quality |-> "",
     raw_similarity |-> 0, embedding_dimensions |-> 0]

\* lines 314-337: the interpretation of the clipped similarity with the
\* length of the first embedding, or the error of the scorer
calculate_similarity_with_metrics(embedding1, embedding2) ==
    LET out == CosineOutcome(embedding1, embedding2)
        interpretation == interpret_similarity(out.sim)
    IN  IF out.err # NoError THEN NoMetrics(out.err)
        ELSE [err |-> NoError,
              percentage |-> interpretation.percentage,
              confidence |-> interpretation.confidence,
              match_quality |-> interpretation.match_quality,
              raw_similarity |-> interpretation.raw_similarity,
              embedding_dimensions |-> Len(embedding1.v)]

-----------------------------------------------------------------------------
(* KeywordAnalyzer: its methods are functions of their arguments and of    *)
(* the fixed tables of __init__; one call per behaviour                    *)

\* longest keyword argument of the enumerated _normalize_keyword calls
MaxKeywordChars == 4

\* the characters the enumerated keywords are written with
KeywordAlphabet == {"a", "A", " ", ",", "-"}

StringsUpTo(alphabet, n) == UNION {[1..k -> alphabet] : k \in 0..n}

\* letters of the keywords and texts of the calls below: [A-Za-z]
LowerLetters == {"a", "b", "c", "d", "e", "f", "g", "h", "i", "j", "k", "l",
                 "m", "n", "o", "p", "q", "r", "s", "t", "u", "v", "w", "x",
                 "y", "z"}
Letters == LowerLetters \cup {"A", "B"}

\* \w: letters, digits and the underscore
KeywordWordChars == Letters \cup {"0", "_"}

\* str.lower()
LowerAll(t) == [i \in 1..Len(t) |-> Lower(t[i])]

\* re.sub(r'[^\w\s\-\.]', '', t): each other character is deleted
RemoveSpecial(t) ==
    SelectSeq(t, LAMBDA c : c \in KeywordWordChars \cup WhitespaceChars \cup {"-", "."})

\* lines 420-431
_normalize_keyword(keyword) ==
    RemoveSpecial(CollapseWhitespace(Strip(LowerAll(keyword))))

\* keywords, as the strings of the source
K_js ==
    <<"j", "s">>
K_python ==
    <<"p", "y", "t", "h", "o", "n">>
K_py ==
    <<"p", "y">>
K_api ==
    <<"a", "p", "i">>
K_apis ==
    <<"a", "p", "i", "s">>
K_docker ==
    <<"d", "o", "c", "k", "e", "r">>

\* lines 358-373, in the order of the dict
synonym_mappings ==
    << [canonical |->
            <<"j", "a", "v", "a", "s", "c", "r", "i", "p", "t">>,
        synonyms |->
            <<K_js,
              <<"e", "c", "m", "a", "s", "c", "r", "i", "p", "t">>>>],
       [canonical |->
            K_python,
        synonyms |->
            <<K_py>>],
       [canonical |->
            <<"a", "r", "t", "i", "f", "i", "c", "i", "a", "l", " ", "i",
              "n", "t", "e", "l", "l", "i", "g", "e", "n", "c", "e">>,
        synonyms |->
            <<<<"a", "i">>,
              <<"m", "a", "c", "h", "i", "n", "e", " ", "l", "e", "a", "r",
                "n", "i", "n", "g">>,
              <<"m", "l">>>>],
       [canonical |->
            <<"u", "s", "e", "r", " ", "i", "n", "t", "e", "r", "f", "a",
              "c", "e">>,
        synonyms |->
            <<<<"u", "i">>>>],
       [canonical |->
            <<"u", "s", "e", "r", " ", "e", "x", "p", "e", "r", "i", "e",
              "n", "c", "e">>,
        synonyms |->
            <<<<"u", "x">>>>],
       [canonical |->
            <<"d", "a", "t", "a", "b", "a", "s", "e">>,
        synonyms |->
            <<<<"d", "b">>,
              <<"d", "a", "t", "a", "b", "a", "s", "e", "s">>>>],
       [canonical |->
            <<"a", "p", "p", "l", "i", "c", "a", "t", "i", "o", "n", " ",
              "p", "r", "o", "g", "r", "a", "m", "m", "i", "n", "g", " ",
              "i", "n", "t", "e", "r", "f", "a", "c", "e">>,
        synonyms |->
            <<K_api,
              K_apis>>],
       [canonical |->
            <<"c", "o", "n", "t", "i", "n", "u", "o", "u", "s", " ", "i",
              "n", "t", "e", "g", "r", "a", "t", "i", "o", "n">>,
        synonyms |->
            <<<<"c", "i">>>>],
       [canonical |->
            <<"c", "o", "n", "t", "i", "n", "u", "o", "u", "s", " ", "d",
              "e", "p", "l", "o", "y", "m", "e", "n", "t">>,
        synonyms |->
            <<<<"c", "d">>>>],
       [canonical |->
            <<"s", "o", "f", "t", "w", "a", "r", "e", " ", "d", "e", "v",
              "e", "l", "o", "p", "m", "e", "n", "t">>,
        synonyms |->
            <<<<"d", "e", "v", "e", "l", "o", "p", "m", "e", "n", "t">>,
              <<"d", "e", "v">>>>],
       [canonical |->
            <<"q", "u", "a", "l", "i", "t", "y", " ", "a", "s", "s", "u",
              "r", "a", "n", "c", "e">>,
        synonyms |->
            <<<<"q", "a">>,
              <<"t", "e", "s", "t", "i", "n", "g">>>>],
       [canonical |->
            <<"p", "r", "o", "j", "e", "c", "t", " ", "m", "a", "n", "a",
              "g", "e", "m", "e", "n", "t">>,
        synonyms |->
            <<<<"p", "m">>>>],
       [canonical |->
            <<"c", "u", "s", "t", "o", "m", "e", "r", " ", "r", "e", "l",
              "a", "t", "i", "o", "n", "s", "h", "i", "p", " ", "m", "a",
              "n", "a", "g", "e", "m", "e", "n", "t">>,
        synonyms |->
            <<<<"c", "r", "m">>>>],
       [canonical |->
            <<"e", "n", "t", "e", "r", "p", "r", "i", "s", "e", " ", "r",
              "e", "s", "o", "u", "r", "c", "e", " ", "p", "l", "a", "n",
              "n", "i", "n", "g">>,
        synonyms |->
            <<<<"e", "r", "p">>>>] >>

Range(f) == {f[i] : i \in DOMAIN f}

\* a synonym brings its canonical term but not its siblings
ExpandOneCanonicalOnly(keyword) ==
    UNION {IF keyword = m.canonical THEN Range(m.synonyms)
           ELSE IF keyword \in Range(m.synonyms) THEN {m.canonical}
                ELSE {} : m \in Range(synonym_mappings)}

\* a synonym brings its siblings but not the canonical term
ExpandOneSiblingsOnly(keyword) ==
    UNION {IF keyword = m.canonical \/ keyword \in Range(m.synonyms)
           THEN Range(m.synonyms) ELSE {} : m \in Range(synonym_mappings)}

\* lines 487-492 for one keyword: what it adds to expanded
ExpandOne(keyword) ==
    UNION {IF keyword = m.canonical THEN Range(m.synonyms)
           ELSE IF keyword \in Range(m.synonyms)
                THEN {m.canonical} \cup Range(m.synonyms)
                ELSE {} : m \in Range(synonym_mappings)}

\* lines 483-494 for the keywords of a list, given as their set; the
\* returned list(expanded) is kept as the set it was made from
ExpandSet(S) == S \cup UNION {ExpandOne(k) : k \in S}

_expand_with_synonyms(keywords) == ExpandSet(Range(keywords))

\* longest keyword list of the enumerated _expand_with_synonyms calls
MaxKeywordList == 2

TableTerms ==
    UNION {{m.canonical} \cup Range(m.synonyms) : m \in Range(synonym_mappings)}

ExpandCalls ==
    {[fn |-> "_expand_with_synonyms", keywords |-> Enumerated(l)] :
        l \in StringsUpTo(TableTerms \cup {K_docker}, MaxKeywordList)}

\* the characters of the model in code-point order
CharOrder ==
    <<"\t", "\n", " ", "!", ",", "-", ".", "0", ":", ";", "?", "@", "A", "B",
      "_", "a", "b", "c", "d", "e", "f", "g", "h", "i", "j", "k", "l", "m",
      "n", "o", "p", "q", "r", "s", "t", "u", "v", "w", "x", "y", "z">>

CharRank(c) == CHOOSE i \in DOMAIN CharOrder : CharOrder[i] = c

\* x < y on str
RECURSIVE LexLess(_, _)
LexLess(x, y) ==
    IF y = <<>> THEN FALSE
    ELSE IF x = <<>> THEN TRUE
    ELSE IF x[1] # y[1] THEN CharRank(x[1]) < CharRank(y[1])
    ELSE LexLess(Tail(x), Tail(y))

\* sorted(S)
RECURSIVE SortedLex(_)
SortedLex(S) ==
    IF S = {} THEN <<>>
    ELSE LET m == CHOOSE x \in S : \A y \in S \ {x} : LexLess(x, y)
         IN  <<m>> \o SortedLex(S \ {m})

\* line 514: key=lambda x: (-len(x), x)
LongestFirstLess(x, y) ==
    Len(x) > Len(y) \/ (Len(x) = Len(y) /\ LexLess(x, y))

RECURSIVE SortedLongestFirst(_)
SortedLongestFirst(S) ==
    IF S = {} THEN <<>>
    ELSE LET m == CHOOSE x \in S : \A y \in S \ {x} : LongestFirstLess(x, y)
         IN  <<m>> \o SortedLongestFirst(S \ {m})

min_keyword_length == 2
max_keyword_length == 50

\* line 418: keywords[:20]
FallbackLimit == 20

\* lines 403-405
fallback_stop_words ==
    { <<"t", "h", "e">>, <<"a", "n", "d">>, <<"f", "o", "r">>,
      <<"a", "r", "e">>, <<"b", "u", "t">>, <<"n", "o", "t">>,
      <<"y", "o", "u">>, <<"a", "l", "l">>, <<"c", "a", "n">>,
      <<"h", "a", "d">>, <<"h", "e", "r">>, <<"w", "a", "s">>,
      <<"o", "n", "e">>, <<"o", "u", "r">>, <<"o", "u", "t">>,
      <<"d", "a", "y">>, <<"g", "e", "t">>, <<"h", "a", "s">>,
      <<"h", "i", "m">>, <<"h", "i", "s">>, <<"h", "o", "w">>,
      <<"m", "a", "n">>, <<"n", "e", "w">>, <<"n", "o", "w">>,
      <<"o", "l", "d">>, <<"s", "e", "e">>, <<"t", "w", "o">>,
      <<"w", "a", "y">>, <<"w", "h", "o">>, <<"b", "o", "y">>,
      <<"d", "i", "d">>, <<"i", "t", "s">>, <<"l", "e", "t">>,
      <<"p", "u", "t">>, <<"s", "a", "y">>, <<"s", "h", "e">>,
      <<"t", "o", "o">>, <<"u", "s", "e">> }

\* the maximal runs of \w characters of t, in order
WordRuns(t) ==
    LET IsW(i) == t[i] \in KeywordWordChars
        starts == SelectSeq([i \in 1..Len(t) |-> i],
                            LAMBDA i : IsW(i) /\ (i = 1 \/ ~IsW(i - 1)))
        EndOf(i) == CHOOSE j \in i..Len(t) :
                        /\ \A k \in i..j : IsW(k)
                        /\ (j = Len(t) \/ ~IsW(j + 1))
    IN  [n \in 1..Len(starts) |-> SubSeq(t, starts[n], EndOf(starts[n]))]

\* line 400: re.findall(r'\b[A-Za-z]{3,}\b', text.lower()): the runs of
\* word characters that are made of three or more letters only
FindAlphabeticWords(text) ==
    SelectSeq(WordRuns(LowerAll(text)),
              LAMBDA w : Len(w) >= 3 /\ \A i \in 1..Len(w) : w[i] \in Letters)

\* the length test left out
FallbackKeepsAnyLength(word) == word \notin fallback_stop_words

\* lines 411-413
FallbackKeeps(word) ==
    /\ word \notin fallback_stop_words
    /\ Len(word) >= min_keyword_length
    /\ Len(word) <= max_keyword_length

\* lines 408-416: the kept words, first occurrences only, in order
RECURSIVE FirstSeen(_, _)
FirstSeen(words, seen) ==
    IF words = <<>> THEN <<>>
    ELSE IF FallbackKeeps(words[1]) /\ words[1] \notin seen
         THEN <<words[1]>> \o FirstSeen(Tail(words), seen \cup {words[1]})
         ELSE FirstSeen(Tail(words), seen)

\* lines 395-418
_fallback_keyword_extraction(text) ==
    LET keywords == FirstSeen(FindAlphabeticWords(text), {})
    IN  SubSeq(keywords, 1, Min(FallbackLimit, Len(keywords)))

\* nlp(text) of the external spaCy pipeline: what _extract_noun_phrases
\* reads of the Doc, each part with at most one element
PhraseTexts ==
    { K_js, <<"a">>, <<"a", ",">>,
      Enumerated(Rep("a", max_keyword_length)),
      Enumerated(Rep("a", max_keyword_length + 1)),
      Enumerated(Rep("a", max_keyword_length)) \o <<",">> }

NounChunks ==
    {[text |-> x, root_is_stop |-> b, root_pos |-> p] :
        x \in PhraseTexts, b \in BOOLEAN, p \in {"NOUN", "VERB"}}

Ents == {[text |-> x, label |-> l] : x \in PhraseTexts, l \in {"ORG", "PERSON"}}

DocTokens ==
    {[text |-> x, pos |-> p, is_stop |-> b, is_punct |-> c] :
        x \in PhraseTexts, p \in {"ADJ", "VERB"}, b \in BOOLEAN, c \in BOOLEAN}

EmptyDoc == [noun_chunks |-> <<>>, ents |-> <<>>, tokens |-> <<>>]

Docs ==
    {[noun_chunks |-> c, ents |-> e, tokens |-> t] :
        c \in StringsUpTo(NounChunks, 1), e \in StringsUpTo(Ents, 1),
        t \in StringsUpTo(DocTokens, 1)}

\* lines 446-454
KeptNounChunks(doc) ==
    {_normalize_keyword(Strip(c.text)) : c \in
        {c \in Range(doc.noun_chunks) :
            LET normalized == _normalize_keyword(Strip(c.text))
            IN  /\ min_keyword_length <= Len(normalized)
                /\ Len(normalized) <= max_keyword_length
                /\ ~c.root_is_stop
                /\ c.root_pos \in {"NOUN", "PROPN"}}}

\* lines 457-463
KeptEnts(doc) ==
    {_normalize_keyword(Strip(e.text)) : e \in
        {e \in Range(doc.ents) :
            LET normalized == _normalize_keyword(Strip(e.text))
            IN  /\ e.label \in {"ORG", "PRODUCT", "SKILL", "TECH"}
                /\ min_keyword_length <= Len(normalized)
                /\ Len(normalized) <= max_keyword_length}}

\* lines 466-473
KeptTokens(doc) ==
    {_normalize_keyword(t.text) : t \in
        {t \in Range(doc.tokens) :
            /\ t.pos \in {"NOUN", "PROPN", "ADJ"}
            /\ ~t.is_stop
            /\ ~t.is_punct
            /\ Len(t.text) >= min_keyword_length
            /\ Len(_normalize_keyword(t.text)) >= min_keyword_length}}

\* lines 433-475; nlp is what _get_nlp_model returned (lines 375-393):
\* the loaded pipeline, or None when spacy.load raised. The value is the
\* set of the returned keywords.
_extract_noun_phrases(nlp, text, doc) ==
    IF nlp = "unavailable"
    THEN Range(_fallback_keyword_extraction(text))
    ELSE KeptNounChunks(doc) \cup KeptEnts(doc) \cup KeptTokens(doc)

\* lines 506-521
extract_keywords(nlp, text, doc) ==
    SortedLongestFirst(ExpandSet(_extract_noun_phrases(nlp, text, doc)))

\* texts of the calls made without a linguistic model
ManyWords == FallbackLimit + 1

Spaced(words) ==
    LET RECURSIVE Join(_)
        Join(n) == IF n = 0 THEN <<>>
                   ELSE IF n = 1 THEN words[1]
                   ELSE Join(n - 1) \o <<" ">> \o words[n]
    IN  Join(Len(words))

TextLongWord == Spaced(<<Enumerated(Rep("a", max_keyword_length + 1)), K_api>>)

FallbackTexts ==
    { <<>>,
      Spaced(<< <<"T", "h", "e">>, K_api, <<"a", "n", "d">>, <<"A", "p", "i">>,
                <<"a", "b", "0">>, K_apis, K_docker >>),
      Spaced([n \in 1..ManyWords |-> <<"a", "a", CharOrder[15 + n]>>]),
      TextLongWord }

ExtractCalls ==
    {[fn |-> "extract_keywords", nlp |-> "loaded", text |-> <<>>, doc |-> d] :
        d \in Docs}
    \cup {[fn |-> "extract_keywords", nlp |-> "unavailable",
           text |-> Enumerated(x), doc |-> EmptyDoc] : x \in FallbackTexts}

FallbackCalls ==
    {[fn |-> "_fallback_keyword_extraction", text |-> Enumerated(x)] :
        x \in FallbackTexts}

\* x in y on str
IsSubstring(x, y) ==
    \E i \in 0..(Len(y) - Len(x)) : SubSeq(y, i + 1, i + Len(x)) = x

\* line 551: len(job_kw) > 3
FuzzyMinLength == 3

\* a partial match in one direction only
FuzzyMatchesJobInResume(job_kw, resume_kw) ==
    IsSubstring(job_kw, resume_kw) /\ Len(job_kw) > FuzzyMinLength

\* line 551
FuzzyMatches(job_kw, resume_kw) ==
    /\ IsSubstring(job_kw, resume_kw) \/ IsSubstring(resume_kw, job_kw)
    /\ Len(job_kw) > FuzzyMinLength

\* lines 538-569
match_keywords(resume_keywords, job_keywords) ==
    LET resume_set == {Enumerated(_normalize_keyword(kw)) : kw \in Range(resume_keywords)}
        job_set == {Enumerated(_normalize_keyword(kw)) : kw \in Range(job_keywords)}
        exact == resume_set \cap job_set
        additional_matches ==
            {job_kw \in job_set \ exact :
                \E resume_kw \in resume_set : FuzzyMatches(job_kw, resume_kw)}
        matched == exact \cup additional_matches
        missing == job_set \ matched
    IN  [matched |-> SortedLex(matched), missing |-> SortedLex(missing)]

\* keyword lists of the enumerated match_keywords calls, to which the
\* documented example is added
MaxResumeKeywords == 1
MaxJobKeywords == 2

MatchTerms ==
    {K_python, K_py, K_api, K_apis, K_docker, <<"A", "p", "i">>, <<",">>}

MatchCalls ==
    {[fn |-> "match_keywords", resume_keywords |-> Enumerated(r),
      job_keywords |-> Enumerated(j)] :
        r \in StringsUpTo(MatchTerms, MaxResumeKeywords),
        j \in StringsUpTo(MatchTerms, MaxJobKeywords)}
    \cup {[fn |-> "match_keywords",
           resume_keywords |-> <<K_python, K_api>>,
           job_keywords |-> <<K_python, K_docker, K_apis>>]}

\* a coverage that is not capped
Uncapped(coverage) == coverage

\* line 624: min(coverage, 100.0)
CapAtHundred(coverage) == Min(coverage, 100 * Scale)

\* lines 620-624, the float in units of 1/Scale
calculate_keyword_coverage(matched_keywords, total_job_keywords) ==
    IF Len(total_job_keywords) = 0 THEN 0
    ELSE CapAtHundred((Len(matched_keywords) * 100 * Scale)
                          \div Len(total_job_keywords))

\* list lengths of the enumerated calculate_keyword_coverage calls
MaxCoverageList == 5

CoverageCalls ==
    {[fn |-> "calculate_keyword_coverage",
      matched_keywords |-> Enumerated(Rep(K_api, m)),
      total_job_keywords |-> Enumerated(Rep(K_api, t))] :
        m \in 0..MaxCoverageList, t \in 0..MaxCoverageList}

NormalizeCalls ==
    {[fn |-> "_normalize_keyword", keyword |-> Enumerated(k)] :
        k \in StringsUpTo(KeywordAlphabet, MaxKeywordChars)}

\* the longest embedding of the enumerated scorer calls
MaxDim == 2

\* the embeddings of the enumerated scorer calls: arrays of one to MaxDim
\* components, and an array of nan
ScorerVectors ==
    {Vec(Enumerated(x)) :
        x \in UNION {[1..d -> {-800, -600, 0, 600, 800}] : d \in 1..MaxDim}}
    \cup {NaNVec}

ScorerCalls ==
    {[fn |-> "calculate_similarity_with_metrics",
      embedding1 |-> a, embedding2 |-> b] :
        a \in ScorerVectors, b \in ScorerVectors}

\* the longest of the short texts of the enumerated _preprocess_text calls
MaxTextChars == 4

\* a text of n letters with a '.' at each 0-based index of dots
DottedText(n, dots) == [i \in 1..n |-> IF i - 1 \in dots THEN "." ELSE "A"]

\* the texts of the enumerated _preprocess_text calls: every short text
\* over letters, a space, a special character and a '.', and texts around
\* the 2000 characters of max_length with a '.' around index 1600
PreprocessCalls ==
    LET boundary == (8 * max_length) \div 10
        long == {DottedText(max_length, {boundary + 1}),
                 DottedText(max_length + 1, {0, boundary - 1, boundary}),
                 DottedText(max_length + 1, {boundary + 1}),
                 DottedText(max_length + 1, {boundary + 1, max_length - 1}),
                 DottedText(max_length + 1, {max_length}),
                 DottedText(max_length + 1, {}),
                 DottedText(boundary, {}) \o <<"  ">> \o DottedText(max_length, {})}
    IN  {[fn |-> "_preprocess_text", text |-> Enumerated(t)] :
            t \in StringsUpTo({"a", "A", " ", "@", "."}, MaxTextChars) \cup long}

\* str.count(sub) from the 1-based index i on: the occurrences that do
\* not overlap, found from the left
RECURSIVE CountFrom(_, _, _)
CountFrom(text, sub, i) ==
    IF i + Len(sub) - 1 > Len(text) THEN 0
    ELSE IF SubSeq(text, i, i + Len(sub) - 1) = sub
         THEN 1 + CountFrom(text, sub, i + (IF Len(sub) = 0 THEN 1 ELSE Len(sub)))
         ELSE CountFrom(text, sub, i + 1)

\* line 596: key=lambda x: (-keyword_frequencies.get(x, 0), x)
RECURSIVE SortedByFrequency(_, _)
SortedByFrequency(S, job_text_lower) ==
    IF S = {} THEN <<>>
    ELSE LET Frequency(x) == CountFrom(job_text_lower, LowerAll(x), 1)
             m == CHOOSE x \in S : \A y \in S \ {x} :
                      \/ Frequency(x) > Frequency(y)
                      \/ Frequency(x) = Frequency(y) /\ LexLess(x, y)
         IN  <<m>> \o SortedByFrequency(S \ {m}, job_text_lower)

\* lines 586-603, for a list without repetitions
prioritize_missing_keywords(missing_keywords, job_text) ==
    SortedByFrequency(Range(missing_keywords), LowerAll(job_text))

\* analyze_compatibility, lines 684-705: the keyword fields of the result
\* for the keywords extracted from the two texts at lines 681-682
AnalyzeKeywordsOf(resume_keywords, job_keywords, job_description) ==
    LET matching == match_keywords(resume_keywords, job_keywords)
    IN  [matched_keywords |-> matching.matched,
         missing_keywords |->
             prioritize_missing_keywords(matching.missing, job_description),
         keyword_coverage |->
             calculate_keyword_coverage(matching.matched, job_keywords)]

\* the text a Doc of at most one noun chunk and one entity was made from
DocText(doc) ==
    (IF doc.noun_chunks = <<>> THEN <<>> ELSE doc.noun_chunks[1].text \o <<" ">>)
        \o (IF doc.ents = <<>> THEN <<>> ELSE doc.ents[1].text)

\* the Docs of the enumerated analyses: a noun chunk out of "a , a" and
\* "docker" or none, and an entity out of "a a" and "api" or none
AnalysisDocs ==
    {[noun_chunks |-> c, ents |-> e, tokens |-> <<>>] :
        c \in {<<>>} \cup
              {<<[text |-> x, root_is_stop |-> FALSE, root_pos |-> "NOUN"]>> :
                  x \in {<<"a", " ", ",", " ", "a">>, K_docker}},
        e \in {<<>>} \cup
              {<<[text |-> x, label |-> "ORG"]>> : x \in {<<"a", " ", "a">>, K_api}}}

AnalyzeKeywordsCalls ==
    {[fn |-> "analyze_keywords", nlp |-> "loaded",
      resume_text |-> Enumerated(DocText(r)), resume_doc |-> r,
      job_description |-> Enumerated(DocText(j)), job_doc |-> j] :
        r \in AnalysisDocs, j \in AnalysisDocs}
    \cup {[fn |-> "analyze_keywords", nlp |-> "unavailable",
           resume_text |-> Enumerated(r), resume_doc |-> EmptyDoc,
           job_description |-> Enumerated(j), job_doc |-> EmptyDoc] :
              r \in FallbackTexts, j \in FallbackTexts}

\* the rows of the analyses table that the enumerated GET requests see
MaxAnalyses == 2

Users == {"u1", "u2"}
\* request.state.user_id of a request that carries no valid token
NoUser == ""
\* db_service.get_analysis_by_id found no row
NoRow == [id |-> 0, user_id |-> NoUser, match_score |-> 0]

\* database_service.py lines 378-404: the row with the given id, whoever
\* its user_id is
get_analysis_by_id(analyses, analysis_id) ==
    IF analysis_id \in DOMAIN analyses THEN analyses[analysis_id] ELSE NoRow

\* auth.py lines 219-229 and analysis.py lines 442-532: 401 without an
\* authenticated user, 404 without a row, and the row's data otherwise;
\* the row's user_id is not compared with the caller's
get_analysis(analyses, analysis_id, user_id) ==
    LET analysis == get_analysis_by_id(analyses, analysis_id)
    IN  IF user_id = NoUser THEN [status |-> 401, id |-> 0, match_score |-> 0]
        ELSE IF analysis = NoRow
        THEN [status |-> 404, id |-> 0, match_score |-> 0]
        ELSE [status |-> 200, id |-> analysis.id,
              match_score |-> analysis.match_score]

\* GET /analysis/{analysis_id} for every table of up to MaxAnalyses rows,
\* every owner of each row, every caller and every id, stored or not
GetAnalysisCalls ==
    {[fn |-> "get_analysis",
      analyses |-> Enumerated([i \in 1..n |->
                      [id |-> i, user_id |-> owner[i], match_score |-> 10 * i]]),
      analysis_id |-> a,
      user_id |-> u] :
        n \in 0..MaxAnalyses,
        owner \in [1..MaxAnalyses -> Users],
        a \in 1..(MaxAnalyses + 1),
        u \in Users \cup {NoUser}}

KeywordCalls ==
    NormalizeCalls \cup ExpandCalls \cup ExtractCalls \cup FallbackCalls
        \cup MatchCalls \cup CoverageCalls \cup ScorerCalls
        \cup PreprocessCalls \cup GetAnalysisCalls \cup AnalyzeKeywordsCalls

\* nlp(text) for the texts of the requests: the external pipeline is a
\* function of the text, here one NOUN token for each run of word
\* characters and no noun chunk or entity
ParsedDoc(text) ==
    [noun_chunks |-> <<>>, ents |-> <<>>,
     tokens |-> [n \in 1..Len(WordRuns(text)) |->
                    [text |-> WordRuns(text)[n], pos |-> "NOUN",
                     is_stop |-> FALSE, is_punct |-> FALSE]]]

\* lines 681-705 for each resume text i and job text j of the requests,
\* first with the linguistic model loaded and then without it
KeywordFieldsTable ==
    LET loaded ==
            Tabulated([i \in TextIds |->
                Enumerated(extract_keywords("loaded", Enumerated(Texts[i]),
                                            ParsedDoc(Enumerated(Texts[i]))))])
        unavailable ==
            Tabulated([i \in TextIds |->
                Enumerated(extract_keywords("unavailable", Enumerated(Texts[i]),
                                            EmptyDoc))])
        Fields(extracted) ==
            Tabulated([i \in TextIds |->
                Tabulated([j \in TextIds |->
                    AnalyzeKeywordsOf(extracted[i], extracted[j],
                                      Enumerated(Texts[j]))])])
    IN  <<Fields(loaded), Fields(unavailable)>>

-----------------------------------------------------------------------------
(* Requests and tasks *)

R == 1..NumRequests
Sides == {"resume", "job"}
Tasks == R \X Sides

NoResult == [vec |-> NoVec, err |-> NoError]
NoAnalysis == [ok |-> FALSE, match_score |-> 0, semantic_similarity |-> 0,
               matched_keywords |-> <<>>, missing_keywords |-> <<>>,
               keyword_coverage |-> 0, err |-> NoError]

\* the text id a task was created with (lines 664 and 667)
TextOfTask(t) == reqText[t[1]][t[2]]

\* the key taken from the raw text, skipping _preprocess_text
CacheKeyOfRawText(i) == RawKeyTable[i]

\* lines 109-113: the key the cache is consulted and filled under, for the
\* text with id i
CacheKeyFor(i) == KeyTable[i]

\* the model constructed on every call, without the None test
LoadsEveryTime(m) == TRUE

\* line 33: if self._model is None
NeedsLoad(m) == m = 0


EmbeddingTable == Tabulated([i \in TextIds |-> L2Normalize(ModelEncode(ProcessedTable[i]))])
RawEmbeddingTable == Tabulated([i \in TextIds |-> L2Normalize(ModelEncode(Texts[i]))])

\* model.encode called directly from the coroutine, which then keeps the
\* event-loop thread for the length of the call
EncodeOnLoopThread(t) == t

\* lines 125-127: await run_in_executor(None, model.encode, ...): the call
\* runs on a pool thread and the awaiting task gives up the event loop
LoopHolderDuringEncode(t) == NoTask

\* model.encode given the raw text instead of processed_text
EncodeRawTextAndNormalize(i) == RawEmbeddingTable[i]

\* lines 125-127 and 144: model.encode(processed_text), then the division
\* by the norm, for the text with id i
EncodeAndNormalize(i) == EmbeddingTable[i]

\* a gather that waits for the resume task alone
GatherResumeOnly(r) == taskPc[<<r, "resume">>] = "done"

\* line 671: gather(resume_task, job_task) has a result once both have one
GatherHasResult(r) ==
    taskPc[<<r, "resume">>] = "done" /\ taskPc[<<r, "job">>] = "done"

GatherFinished(r) == GatherHasResult(r) \/ gather_exc[r] # NoError

TotalLoads == LET RECURSIVE Sum(_)
                  Sum(k) == IF k = 0 THEN 0 ELSE loads[k] + Sum(k - 1)
              IN  Sum(NumRequests)

\* a cache that keeps the latest entry only
CachePutEvicting(cache, k, x) == [j \in {k} |-> x]

\* line 147: self._embedding_cache[cache_key] = embedding
CachePut(cache, k, x) ==
    [j \in DOMAIN cache \cup {k} |-> IF j = k THEN x ELSE cache[j]]

EmptyCache == [k \in {} |-> NoVec]

EngineInit ==
    /\ _model = 0
    /\ _embedding_cache = EmptyCache
    /\ reqPc = [r \in R |-> "idle"]
    /\ reqText = [r \in R |-> [resume |-> 1, job |-> 1]]
    /\ reqOutcome = [r \in R |-> "pending"]
    /\ reqResult = [r \in R |-> NoAnalysis]
    /\ gather_exc = [r \in R |-> NoError]
    /\ taskPc = [t \in Tasks |-> "idle"]
    /\ taskVia = [t \in Tasks |-> "none"]
    /\ taskModel = [t \in Tasks |-> 0]
    /\ taskResult = [t \in Tasks |-> NoResult]
    /\ worker = [t \in Tasks |-> "none"]
    /\ running = NoTask
    /\ loads = [r \in R |-> 0]
    /\ encodes = [t \in Tasks |-> 0]

ChunkIdle ==
    /\ chunk_pc = "idle"
    /\ nwords = 0
    /\ chunk_start = 0
    /\ chunk_end = 0
    /\ chunks = <<>>

KeywordIdle ==
    /\ kw_pc = "idle"
    /\ kw_in = <<>>
    /\ kw_out = <<>>

\* CircuitBreakerConfig (ai_service.py 29-34) and GeminiClient.max_retries
\* (ai_service.py 97)
failure_threshold == 5
recovery_timeout == 60
success_threshold == 2
max_retries == 3

Calls == 1..NumCalls

\* CircuitBreaker.__init__ (ai_service.py 40-45) and a client on which no
\* call has been made, at time 0
BreakerInit ==
    /\ circuit_breaker = [state |-> "closed", failure_count |-> 0,
                          success_count |-> 0, last_failure_time |-> 0]
    /\ now = 0
    /\ callPc = [c \in Calls |-> "idle"]
    /\ attempt = [c \in Calls |-> 0]
    /\ callOutcome = [c \in Calls |-> "none"]
    /\ failed_calls = 0

Init ==
    /\ EngineInit
    /\ max_chunk_length = DefaultMaxChunkLength
    /\ chunk_overlap = DefaultChunkOverlap
    /\ ChunkIdle
    /\ KeywordIdle
    /\ BreakerInit

\* analysis.py 156-159 and semantic_service.py 656-671: wait_for starts
\* analyze_compatibility, which creates both tasks and awaits gather
StartRequest(r, rt, jt) ==
    /\ running = NoTask
    /\ reqPc[r] = "idle"
    /\ \A q \in R : q < r => reqPc[q] # "idle"
    /\ reqPc' = [reqPc EXCEPT ![r] = "gather"]
    /\ reqText' = [reqText EXCEPT ![r] = [resume |-> rt, job |-> jt]]
    /\ taskPc' = [taskPc EXCEPT ![<<r, "resume">>] = "ready",
                                ![<<r, "job">>] = "ready"]
    /\ UNCHANGED <<_model, _embedding_cache, max_chunk_length, chunk_overlap,
                   reqOutcome, reqResult, gather_exc, taskVia,
                   taskModel, taskResult, worker, running, loads, encodes>>
    /\ UNCHANGED chunkVars
    /\ UNCHANGED kwVars
    /\ UNCHANGED breakerVars

\* a failed child completes the gather future with its exception, unless
\* the future is already done
GatherAfterFailure(r, e) ==
    IF reqPc[r] = "gather" /\ ~GatherFinished(r)
    THEN [gather_exc EXCEPT ![r] = e]
    ELSE gather_exc

\* generate_embedding from its first line to its first await or its return
\* (lines 107-127); tasks of one request start in creation order
GenerateEmbeddingBegin(t, loadOk) ==
    LET text == TextOfTask(t)
        key  == CacheKeyFor(text)
        r    == t[1]
    IN
    /\ running = NoTask
    /\ taskPc[t] = "ready"
    /\ t[2] = "job" => taskPc[<<r, "resume">>] # "ready"
    /\ IF key \in DOMAIN _embedding_cache
       THEN \* lines 113-115
            /\ loadOk
            /\ taskPc' = [taskPc EXCEPT ![t] = "done"]
            /\ taskVia' = [taskVia EXCEPT ![t] = "hit"]
            /\ taskResult' = [taskResult EXCEPT
                                 ![t] = [vec |-> _embedding_cache[key],
                                         err |-> NoError]]
            /\ UNCHANGED <<_model, taskModel, worker, running, loads, encodes,
                           gather_exc>>
            /\ UNCHANGED chunkVars
       ELSE IF NeedsLoad(_model) /\ ~loadOk
       THEN \* lines 38-40, then 156-158
            /\ taskPc' = [taskPc EXCEPT ![t] = "failed"]
            /\ taskVia' = [taskVia EXCEPT ![t] = "miss"]
            /\ taskResult' = [taskResult EXCEPT
                                 ![t] = [vec |-> NoVec,
                                         err |-> EmbeddingError(LoadError)]]
            /\ loads' = [loads EXCEPT ![r] = @ + 1]
            /\ gather_exc' = GatherAfterFailure(r, EmbeddingError(LoadError))
            /\ UNCHANGED <<_model, taskModel, worker, running, encodes>>
            /\ UNCHANGED chunkVars
       ELSE \* lines 33-37 when needed, then 121 onwards
            /\ NeedsLoad(_model) \/ loadOk
            /\ _model' = IF NeedsLoad(_model) THEN TotalLoads + 1 ELSE _model
            /\ loads' = IF NeedsLoad(_model)
                        THEN [loads EXCEPT ![r] = @ + 1] ELSE loads
            /\ taskModel' = [taskModel EXCEPT ![t] = _model']
            /\ taskVia' = [taskVia EXCEPT ![t] = "miss"]
            /\ ChunkTextEnter(WordCountTable[text])
            /\ IF chunk_pc' = "returned"
               THEN \* lines 123-127: a single chunk
                    /\ taskPc' = [taskPc EXCEPT ![t] = "await_encode"]
                    /\ worker' = [worker EXCEPT ![t] = "busy"]
                    /\ encodes' = [encodes EXCEPT ![t] = @ + 1]
                    /\ running' = LoopHolderDuringEncode(t)
               ELSE \* still inside _chunk_text, on the event-loop thread
                    /\ taskPc' = [taskPc EXCEPT ![t] = "chunking"]
                    /\ running' = t
                    /\ UNCHANGED <<worker, encodes>>
            /\ UNCHANGED <<taskResult, gather_exc>>
    /\ UNCHANGED <<_embedding_cache, max_chunk_length, chunk_overlap, reqPc,
                   reqText, reqOutcome, reqResult>>
    /\ UNCHANGED kwVars
    /\ UNCHANGED breakerVars

\* _chunk_text's loop inside the generate_embedding call that holds the
\* event loop (line 121). With the window the engine is constructed with
\* no iteration of a text of several chunks returns (ChunkSpec), so the
\* per-chunk encoding of lines 128-141 is never entered.
ChunkLoopInTask ==
    /\ running # NoTask
    /\ taskPc[running] = "chunking"
    /\ ChunkTextIterate
    /\ chunk_pc' # "returned"
    /\ UNCHANGED <<max_chunk_length, chunk_overlap>>
    /\ UNCHANGED engineVars
    /\ UNCHANGED kwVars
    /\ UNCHANGED breakerVars

\* the pool thread finishes model.encode and signals the loop; the signal
\* of a job whose task was cancelled is dropped, its future being cancelled
EncodeFinish(t) ==
    /\ worker[t] = "busy"
    /\ taskPc[t] = "await_encode"
    /\ worker' = [worker EXCEPT ![t] = "done"]
    /\ UNCHANGED <<_model, _embedding_cache, max_chunk_length, chunk_overlap,
                   reqPc, reqText, reqOutcome, reqResult,
                   gather_exc, taskPc, taskVia, taskModel, taskResult,
                   running, loads, encodes>>
    /\ UNCHANGED chunkVars
    /\ UNCHANGED kwVars
    /\ UNCHANGED breakerVars

\* generate_embedding after the await (lines 143-154)
GenerateEmbeddingResume(t) ==
    LET text == TextOfTask(t)
        embedding == EncodeAndNormalize(text)
    IN
    /\ running = NoTask
    /\ taskPc[t] = "await_encode"
    /\ worker[t] = "done"
    /\ _embedding_cache' = CachePut(_embedding_cache, CacheKeyFor(text), embedding)
    /\ taskPc' = [taskPc EXCEPT ![t] = "done"]
    /\ taskResult' = [taskResult EXCEPT ![t] = [vec |-> embedding, err |-> NoError]]
    /\ worker' = [worker EXCEPT ![t] = "none"]
    /\ UNCHANGED <<_model, max_chunk_length, chunk_overlap, reqPc, reqText,
                   reqOutcome, reqResult, gather_exc, taskVia,
                   taskModel, running, loads, encodes>>
    /\ UNCHANGED chunkVars
    /\ UNCHANGED kwVars
    /\ UNCHANGED breakerVars

\* analyze_compatibility after gather returned both embeddings
\* (lines 673-717) and analyze_resume's handling of the outcome
AnalyzeAfterGather(r) ==
    LET out == calculate_similarity_with_metrics(
                   taskResult[<<r, "resume">>].vec,
                   taskResult[<<r, "job">>].vec)
    IN
    /\ running = NoTask
    /\ reqPc[r] = "gather"
    /\ gather_exc[r] = NoError
    /\ GatherHasResult(r)
    /\ IF out.err # NoError
       THEN /\ reqPc' = [reqPc EXCEPT ![r] = "failed"]
            /\ reqResult' = [reqResult EXCEPT
                                ![r] = [NoAnalysis EXCEPT
                                           !.err = OrchestratorError(out.err)]]
            /\ reqOutcome' = [reqOutcome EXCEPT ![r] = "422"]
       ELSE /\ reqPc' = [reqPc EXCEPT ![r] = "returned"]
            /\ \E nlp \in DOMAIN KeywordFieldsTable :
                  LET keywords ==
                          KeywordFieldsTable[nlp][reqText[r].resume][reqText[r].job]
                  IN  reqResult' =
                          [reqResult EXCEPT
                              ![r] = [ok |-> TRUE,
                                      match_score |-> out.percentage,
                                      semantic_similarity |-> out.raw_similarity,
                                      matched_keywords |-> keywords.matched_keywords,
                                      missing_keywords |-> keywords.missing_keywords,
                                      keyword_coverage |-> keywords.keyword_coverage,
                                      err |-> NoError]]
            /\ reqOutcome' = [reqOutcome EXCEPT ![r] = "ok"]
    /\ UNCHANGED <<_model, _embedding_cache, max_chunk_length, chunk_overlap,
                   reqText, gather_exc, taskPc, taskVia, taskModel,
                   taskResult, worker, running, loads, encodes>>
    /\ UNCHANGED chunkVars
    /\ UNCHANGED kwVars
    /\ UNCHANGED breakerVars

\* gather raised the first child's exception: lines 715-717, then
\* analysis.py 309-324
AnalyzeGatherRaised(r) ==
    /\ running = NoTask
    /\ reqPc[r] = "gather"
    /\ gather_exc[r] # NoError
    /\ reqPc' = [reqPc EXCEPT ![r] = "failed"]
    /\ reqResult' = [reqResult EXCEPT
                        ![r] = [NoAnalysis EXCEPT
                                   !.err = OrchestratorError(gather_exc[r])]]
    /\ reqOutcome' = [reqOutcome EXCEPT ![r] = "422"]
    /\ UNCHANGED <<_model, _embedding_cache, max_chunk_length, chunk_overlap,
                   reqText, gather_exc, taskPc, taskVia, taskModel,
                   taskResult, worker, running, loads, encodes>>
    /\ UNCHANGED chunkVars
    /\ UNCHANGED kwVars
    /\ UNCHANGED breakerVars

\* the 60 s of wait_for have passed (analysis.py 158) and its timeout
\* callback runs on the event loop: it cancels the analysis task, whose pending gather cancels the children that are not
\* finished; CancelledError is not an Exception, so no handler catches it,
\* and analyze_resume answers 408 (analysis.py 160-169)
TimeoutFires(r) ==
    /\ running = NoTask
    /\ reqPc[r] = "gather"
    /\ taskPc' = [t \in Tasks |->
                    IF /\ t[1] = r
                       /\ ~GatherFinished(r)
                       /\ taskPc[t] \in {"ready", "await_encode"}
                    THEN "cancelled" ELSE taskPc[t]]
    /\ reqPc' = [reqPc EXCEPT ![r] = "cancelled"]
    /\ reqOutcome' = [reqOutcome EXCEPT ![r] = "408"]
    /\ UNCHANGED <<_model, _embedding_cache, max_chunk_length, chunk_overlap,
                   reqText, reqResult, gather_exc, taskVia,
                   taskModel, taskResult, worker, running, loads, encodes>>
    /\ UNCHANGED chunkVars
    /\ UNCHANGED kwVars
    /\ UNCHANGED breakerVars

\* EmbeddingGenerator.clear_cache (lines 160-163)
clear_cache ==
    /\ running = NoTask
    /\ _embedding_cache # EmptyCache
    /\ _embedding_cache' = EmptyCache
    /\ UNCHANGED <<_model, max_chunk_length, chunk_overlap, reqPc, reqText,
                   reqOutcome, reqResult, gather_exc, taskPc,
                   taskVia, taskModel, taskResult, worker, running, loads,
                   encodes>>
    /\ UNCHANGED chunkVars
    /\ UNCHANGED kwVars
    /\ UNCHANGED breakerVars

Next ==
    \/ \E r \in R, in \in Inputs : StartRequest(r, in[1], in[2])
    \/ \E t \in Tasks, loadOk \in BOOLEAN : GenerateEmbeddingBegin(t, loadOk)
    \/ ChunkLoopInTask
    \/ \E t \in Tasks : EncodeFinish(t)
    \/ \E t \in Tasks : GenerateEmbeddingResume(t)
    \/ \E r \in R : AnalyzeAfterGather(r)
    \/ \E r \in R : AnalyzeGatherRaised(r)
    \/ \E r \in R : TimeoutFires(r)
    \/ clear_cache

Spec == Init /\ [][Next]_vars

\* A single request on an otherwise idle server, for what must eventually
\* happen to it.
Solo == CHOOSE r \in R : \A q \in R : r <= q
SoloTasks == {Solo} \X Sides

\* one step of the event-loop thread: a ready task or callback, a due
\* timer's included, or the next iteration of the code that holds the thread
SoloEventLoopStep ==
    \/ \E t \in SoloTasks, loadOk \in BOOLEAN : GenerateEmbeddingBegin(t, loadOk)
    \/ ChunkLoopInTask
    \/ \E t \in SoloTasks : GenerateEmbeddingResume(t)
    \/ AnalyzeAfterGather(Solo)
    \/ AnalyzeGatherRaised(Solo)
    \/ TimeoutFires(Solo)

SoloNext ==
    \/ \E in \in Inputs : StartRequest(Solo, in[1], in[2])
    \/ \E t \in SoloTasks : EncodeFinish(t)
    \/ clear_cache
    \/ SoloEventLoopStep

\* the event-loop thread keeps running while it has something to run; the
\* pool thread's model.encode is not assumed to return
FairSpec == Init /\ [][SoloNext]_vars /\ WF_vars(SoloEventLoopStep)

-----------------------------------------------------------------------------
(* _chunk_text on its own: any window 0 <= overlap < max, the configured   *)
(* one included, and texts of up to MaxSmallWords words, of LongWords      *)
(* words and of ExampleWords words                                         *)

ChunkConfigs ==
    {<<m, o>> : m \in 1..MaxSmallWindow, o \in 0..(MaxSmallWindow - 1)}
        \cup {<<DefaultMaxChunkLength, DefaultChunkOverlap>>}

\* the text length of the documented chunking example
ExampleWords == 1000

ChunkWordCounts == 0..MaxSmallWords \cup {LongWords, ExampleWords}

ChunkInit ==
    /\ EngineInit
    /\ \E c \in ChunkConfigs :
          /\ c[2] < c[1]
          /\ max_chunk_length = c[1]
          /\ chunk_overlap = c[2]
    /\ \E n \in ChunkWordCounts : nwords = WordCount(WordsText(n))
    /\ chunk_pc = "call"
    /\ chunk_start = 0
    /\ chunk_end = 0
    /\ chunks = <<>>
    /\ KeywordIdle
    /\ BreakerInit

ChunkCall ==
    /\ chunk_pc = "call"
    /\ ChunkTextEnter(nwords)
    /\ UNCHANGED <<max_chunk_length, chunk_overlap>>
    /\ UNCHANGED engineVars
    /\ UNCHANGED kwVars
    /\ UNCHANGED breakerVars

ChunkStep ==
    /\ ChunkTextIterate
    /\ UNCHANGED <<max_chunk_length, chunk_overlap>>
    /\ UNCHANGED engineVars
    /\ UNCHANGED kwVars
    /\ UNCHANGED breakerVars

ChunkNext == ChunkCall \/ ChunkStep

ChunkSpec == ChunkInit /\ [][ChunkNext]_vars

-----------------------------------------------------------------------------
(* One call of a method on its own, for every enumerated argument *)

KeywordInit ==
    /\ EngineInit
    /\ max_chunk_length = DefaultMaxChunkLength
    /\ chunk_overlap = DefaultChunkOverlap
    /\ ChunkIdle
    /\ kw_pc = "call"
    /\ kw_in \in KeywordCalls
    /\ kw_out = <<>>
    /\ BreakerInit

\* the call in kw_in returns value
KeywordReturn(fn, value) ==
    /\ kw_pc = "call"
    /\ kw_in.fn = fn
    /\ kw_out' = value
    /\ kw_pc' = "returned"
    /\ UNCHANGED <<kw_in, max_chunk_length, chunk_overlap>>
    /\ UNCHANGED engineVars
    /\ UNCHANGED chunkVars
    /\ UNCHANGED breakerVars

NormalizeKeyword ==
    KeywordReturn("_normalize_keyword", Enumerated(_normalize_keyword(kw_in.keyword)))

ExpandWithSynonyms ==
    KeywordReturn("_expand_with_synonyms", _expand_with_synonyms(kw_in.keywords))

ExtractKeywords ==
    KeywordReturn("extract_keywords",
                  extract_keywords(kw_in.nlp, kw_in.text, kw_in.doc))

FallbackKeywordExtraction ==
    KeywordReturn("_fallback_keyword_extraction",
                  _fallback_keyword_extraction(kw_in.text))

MatchKeywords ==
    KeywordReturn("match_keywords",
                  match_keywords(kw_in.resume_keywords, kw_in.job_keywords))

CalculateKeywordCoverage ==
    KeywordReturn("calculate_keyword_coverage",
                  calculate_keyword_coverage(kw_in.matched_keywords,
                                             kw_in.total_job_keywords))

CalculateSimilarityWithMetrics ==
    KeywordReturn("calculate_similarity_with_metrics",
                  calculate_similarity_with_metrics(kw_in.embedding1,
                                                    kw_in.embedding2))

PreprocessText ==
    KeywordReturn("_preprocess_text", Enumerated(_preprocess_text(kw_in.text)))

GetAnalysis ==
    KeywordReturn("get_analysis",
                  get_analysis(kw_in.analyses, kw_in.analysis_id, kw_in.user_id))

AnalyzeKeywords ==
    KeywordReturn("analyze_keywords",
                  AnalyzeKeywordsOf(
                      extract_keywords(kw_in.nlp, kw_in.resume_text, kw_in.resume_doc),
                      extract_keywords(kw_in.nlp, kw_in.job_description, kw_in.job_doc),
                      kw_in.job_description))

KeywordNext ==
    \/ AnalyzeKeywords
    \/ GetAnalysis
    \/ CalculateSimilarityWithMetrics
    \/ PreprocessText
    \/ NormalizeKeyword
    \/ ExpandWithSynonyms
    \/ ExtractKeywords
    \/ FallbackKeywordExtraction
    \/ MatchKeywords
    \/ CalculateKeywordCoverage

KeywordSpec == KeywordInit /\ [][KeywordNext]_vars

-----------------------------------------------------------------------------
(* GeminiClient.generate_response and its CircuitBreaker, one step per     *)
(* stretch of code between two awaits; the client has a configured model   *)

\* CircuitBreaker.can_execute (ai_service.py 47-60) at time t: whether the
\* call may go on, and the breaker it leaves
can_execute(cb, t) ==
    IF cb.state = "closed" THEN [allowed |-> TRUE, cb |-> cb]
    ELSE IF cb.state = "open"
    THEN IF t - cb.last_failure_time >= recovery_timeout
         THEN [allowed |-> TRUE,
               cb |-> [cb EXCEPT !.state = "half_open", !.success_count = 0]]
         ELSE [allowed |-> FALSE, cb |-> cb]
    ELSE [allowed |-> TRUE, cb |-> cb]

\* CircuitBreaker.record_success (ai_service.py 62-71)
record_success(cb) ==
    IF cb.state = "half_open"
    THEN IF cb.success_count + 1 >= success_threshold
         THEN [cb EXCEPT !.success_count = @ + 1, !.state = "closed",
                         !.failure_count = 0]
         ELSE [cb EXCEPT !.success_count = @ + 1]
    ELSE IF cb.state = "closed" THEN [cb EXCEPT !.failure_count = 0]
    ELSE cb

\* CircuitBreaker.record_failure (ai_service.py 73-88) at time t
record_failure(cb, t) ==
    LET counted == [cb EXCEPT !.failure_count = @ + 1, !.last_failure_time = t]
    IN  IF cb.state = "closed"
        THEN IF counted.failure_count >= failure_threshold
             THEN [counted EXCEPT !.state = "open"]
             ELSE counted
        ELSE IF cb.state = "half_open" THEN [counted EXCEPT !.state = "open"]
        ELSE counted

\* generate_response from its first line to the first await (ai_service.py
\* 150-181): the breaker refuses the call, or the first request is sent
GenerateResponseBegin(c) ==
    LET admission == can_execute(circuit_breaker, now)
    IN
    /\ callPc[c] = "idle"
    /\ circuit_breaker' = admission.cb
    /\ attempt' = [attempt EXCEPT ![c] = 0]
    /\ IF admission.allowed
       THEN /\ callPc' = [callPc EXCEPT ![c] = "in_flight"]
            /\ callOutcome' = [callOutcome EXCEPT ![c] = "none"]
       ELSE /\ callOutcome' = [callOutcome EXCEPT ![c] = "circuit_open"]
            /\ UNCHANGED callPc
    /\ UNCHANGED <<now, failed_calls>>
    /\ UNCHANGED <<max_chunk_length, chunk_overlap>>
    /\ UNCHANGED engineVars
    /\ UNCHANGED chunkVars
    /\ UNCHANGED kwVars

\* the request of call c is answered (ai_service.py 184-249): with a text,
\* with a quota or an authentication error, or with another error or an
\* empty response, after which the call sleeps or, on its last attempt,
\* records the failure at line 234 and once more at line 252
ApiResponds(c, answer) ==
    /\ callPc[c] = "in_flight"
    /\ IF answer = "text"
       THEN /\ circuit_breaker' = record_success(circuit_breaker)
            /\ callPc' = [callPc EXCEPT ![c] = "idle"]
            /\ callOutcome' = [callOutcome EXCEPT ![c] = "returned"]
            /\ failed_calls' = 0
       ELSE IF answer \in {"quota", "authentication"}
       THEN /\ circuit_breaker' = record_failure(circuit_breaker, now)
            /\ callPc' = [callPc EXCEPT ![c] = "idle"]
            /\ callOutcome' = [callOutcome EXCEPT ![c] = answer]
            /\ failed_calls' = failed_calls + 1
       ELSE IF attempt[c] = max_retries - 1
       THEN /\ circuit_breaker' =
                   record_failure(record_failure(circuit_breaker, now), now)
            /\ callPc' = [callPc EXCEPT ![c] = "idle"]
            /\ callOutcome' = [callOutcome EXCEPT ![c] = "retries_exhausted"]
            /\ failed_calls' = failed_calls + 1
       ELSE /\ callPc' = [callPc EXCEPT ![c] = "sleep"]
            /\ UNCHANGED <<circuit_breaker, callOutcome, failed_calls>>
    /\ UNCHANGED <<now, attempt>>
    /\ UNCHANGED <<max_chunk_length, chunk_overlap>>
    /\ UNCHANGED engineVars
    /\ UNCHANGED chunkVars
    /\ UNCHANGED kwVars

\* asyncio.sleep(delay) is over (ai_service.py 248) and the loop sends the
\* next request (ai_service.py 165-181)
RetryAfterSleep(c) ==
    /\ callPc[c] = "sleep"
    /\ attempt' = [attempt EXCEPT ![c] = @ + 1]
    /\ callPc' = [callPc EXCEPT ![c] = "in_flight"]
    /\ UNCHANGED <<circuit_breaker, now, callOutcome, failed_calls>>
    /\ UNCHANGED <<max_chunk_length, chunk_overlap>>
    /\ UNCHANGED engineVars
    /\ UNCHANGED chunkVars
    /\ UNCHANGED kwVars

\* time passes, half a recovery_timeout at a time
Tick ==
    /\ now + recovery_timeout \div 2 <= MaxClock
    /\ now' = now + recovery_timeout \div 2
    /\ UNCHANGED <<circuit_breaker, callPc, attempt, callOutcome, failed_calls>>
    /\ UNCHANGED <<max_chunk_length, chunk_overlap>>
    /\ UNCHANGED engineVars
    /\ UNCHANGED chunkVars
    /\ UNCHANGED kwVars

BreakerNext ==
    \/ \E c \in Calls : GenerateResponseBegin(c)
    \/ \E c \in Calls, answer \in {"text", "quota", "authentication", "error"} :
          ApiResponds(c, answer)
    \/ \E c \in Calls : RetryAfterSleep(c)
    \/ Tick

BreakerSpec == Init /\ [][BreakerNext]_vars

-----------------------------------------------------------------------------
(* Claims *)

ResolvedTask(t) == taskPc[t] \in {"done", "failed"}

\* the raw vector model.encode gives for text i has Euclidean norm zero
ZeroNorm(i) == Norm(ModelEncode(ProcessedTable[i])) = 0

\* C1: _chunk_text terminates: the window stops advancing once the last
\* word of the text has been covered, i.e. the loop is never at its head
\* again after appending a chunk that ends at the last word.
C1_WindowStopsAtLastWord ==
    (chunk_pc = "loop" /\ chunks # <<>>) => chunk_end < nwords

\* C2: a request whose analysis is waiting for its embeddings always comes
\* to an end (the timeout answers 408 when the embeddings do not resolve),
\* and a 408 carries no CompatibilityResult.
C2_TimeoutEndsAnalysis ==
    /\ \A r \in R : (reqPc[r] = "gather") ~> (reqOutcome[r] # "pending")
    /\ [](\A r \in R : reqOutcome[r] = "408" => (reqPc[r] = "cancelled" /\ ~reqResult[r].ok))

\* the error the failing component raised inside request r
ComponentError(r) ==
    IF gather_exc[r] # NoError THEN gather_exc[r]
    ELSE IF taskResult[<<r, "resume">>].vec.nan \/ taskResult[<<r, "job">>].vec.nan
         THEN ScorerError("Input contains NaN")
         ELSE ScorerError("Incompatible dimension")

C4_ScorerAfterBothEmbeddings ==
    \A r \in R :
        /\ reqPc[r] # "idle" =>
              taskPc[<<r, "resume">>] # "idle" /\ taskPc[<<r, "job">>] # "idle"
        /\ (reqPc[r] = "returned" \/ (reqPc[r] = "failed" /\ gather_exc[r] = NoError)) =>
              /\ taskPc[<<r, "resume">>] = "done"
              /\ taskPc[<<r, "job">>] = "done"

\* one analysis has been scored while in another the job embedding is
\* complete before the resume embedding
C4_Witness ==
    \E r, q \in R :
        /\ reqPc[r] = "returned"
        /\ reqPc[q] = "gather"
        /\ taskPc[<<q, "job">>] = "done"
        /\ taskPc[<<q, "resume">>] = "await_encode"

\* C5: a generate_embedding call that finds the key of its preprocessed
\* text in the cache returns the cached vector without loading or invoking
\* the model; a call that computed a vector leaves it in the cache, and
\* entries disappear only when the whole cache is cleared.
C5_CacheHitSkipsModel ==
    /\ [][\A t \in Tasks :
            (/\ taskPc[t] = "ready"
             /\ taskPc'[t] \notin {"ready", "cancelled"}
             /\ KeyTable[TextOfTask(t)] \in DOMAIN _embedding_cache)
            => /\ taskPc'[t] = "done"
               /\ taskResult'[t].vec = _embedding_cache[KeyTable[TextOfTask(t)]]
               /\ encodes' = encodes
               /\ loads' = loads
               /\ _model' = _model]_vars
    /\ [][\A t \in Tasks :
            (taskPc[t] = "await_encode" /\ taskPc'[t] = "done")
            => /\ KeyTable[TextOfTask(t)] \in DOMAIN _embedding_cache'
               /\ _embedding_cache'[KeyTable[TextOfTask(t)]] = taskResult'[t].vec]_vars
    /\ [][(DOMAIN _embedding_cache \subseteq DOMAIN _embedding_cache')
            \/ _embedding_cache' = EmptyCache]_vars

\* a call on "AAA..." was served from the entry a call on "aaa..." made
C5_Witness ==
    \E t, u \in Tasks :
        /\ TextOfTask(t) # TextOfTask(u)
        /\ KeyTable[TextOfTask(t)] = KeyTable[TextOfTask(u)]
        /\ taskVia[u] = "miss" /\ taskPc[u] = "done"
        /\ taskVia[t] = "hit" /\ taskPc[t] = "done" /\ encodes[t] = 0
        /\ taskResult[t].vec = taskResult[u].vec

\* C6: a call whose raw vector has norm zero fails, returns no vector and
\* stores nothing in the cache.
C6_ZeroNormRejected ==
    \A t \in Tasks :
        (ResolvedTask(t) /\ taskVia[t] = "miss" /\ ZeroNorm(TextOfTask(t)))
        => /\ taskPc[t] = "failed"
           /\ taskResult[t].vec = NoVec
           /\ KeyTable[TextOfTask(t)] \notin DOMAIN _embedding_cache

\* C7: in an analysis where the model load failed, the load was attempted
\* only once and none of its tasks added a cache entry.
C7_LoadAttemptedOnce ==
    \A r \in R :
        (\E s \in Sides : taskResult[<<r, s>>].err = EmbeddingError(LoadError))
        => /\ loads[r] <= 1
           /\ \A s \in Sides :
                 ~(taskVia[<<r, s>>] = "miss" /\ taskPc[<<r, s>>] = "done")

\* C8: every cache entry is keyed by the key of a preprocessed text and
\* holds the normalized model vector of exactly that text.
C8_CacheEntriesMatchText ==
    /\ DOMAIN _embedding_cache \subseteq {KeyTable[i] : i \in TextIds}
    /\ \A i \in TextIds :
          KeyTable[i] \in DOMAIN _embedding_cache =>
              _embedding_cache[KeyTable[i]] = L2Normalize(ModelEncode(ProcessedTable[i]))
    /\ \A t \in Tasks :
          taskPc[t] = "done" =>
              taskResult[t].vec = L2Normalize(ModelEncode(ProcessedTable[TextOfTask(t)]))

\* two calls missed on the same preprocessed text, both invoked the model,
\* and the entry is that text's vector
C8_Witness ==
    \E t, u \in Tasks :
        /\ t # u
        /\ TextOfTask(t) # TextOfTask(u)
        /\ KeyTable[TextOfTask(t)] = KeyTable[TextOfTask(u)]
        /\ taskVia[t] = "miss" /\ taskPc[t] = "done" /\ encodes[t] = 1
        /\ taskVia[u] = "miss" /\ taskPc[u] = "done" /\ encodes[u] = 1
        /\ KeyTable[TextOfTask(t)] \in DOMAIN _embedding_cache

\* C9: the model is constructed only on a cache miss, and once an instance
\* exists it is never replaced or constructed again: every call that got a
\* model got that instance.
C9_ModelLoadedLazilyOnce ==
    /\ []((TotalLoads > 0) => \E t \in Tasks : taskVia[t] = "miss")
    /\ [](\A t \in Tasks : encodes[t] > 0 => (taskModel[t] # 0 /\ taskModel[t] = _model))
    /\ [][_model # 0 => (_model' = _model /\ loads' = loads)]_vars

\* a load failed, a later one succeeded, and two calls encoded with it
C9_Witness ==
    \E t, u \in Tasks :
        /\ t # u
        /\ TotalLoads = 2
        /\ _model # 0
        /\ encodes[t] = 1 /\ taskModel[t] = _model
        /\ encodes[u] = 1 /\ taskModel[u] = _model

\* C10: while a task's model.encode is in progress on a pool thread the
\* task is suspended and does not hold the event loop, every encode call
\* is such a pool job, and the task resumes only once the job has
\* signalled completion.
C10_EncodeOffLoop ==
    /\ [](\A t \in Tasks :
            (worker[t] = "busy" /\ taskPc[t] # "cancelled") =>
                (taskPc[t] = "await_encode" /\ running # t))
    /\ [][\A t \in Tasks :
            encodes'[t] # encodes[t] => (worker'[t] = "busy" /\ running' # t)]_vars
    /\ [][\A t \in Tasks :
            (taskPc[t] = "await_encode" /\ taskPc'[t] = "done") => worker[t] = "done"]_vars

\* two encode calls in progress at once: the second task ran on the event
\* loop while the first one's encode was on its thread
C10_Witness ==
    \E t, u \in Tasks :
        /\ t # u
        /\ worker[t] = "busy" /\ taskPc[t] = "await_encode"
        /\ worker[u] = "busy" /\ taskPc[u] = "await_encode"

\* C11: a step of the engine either keeps every cache entry, key and
\* vector, or is clear_cache, which leaves the cache empty and touches no
\* request or task.
C11_EntriesPersistUntilCleared ==
    [][\/ \A k \in DOMAIN _embedding_cache :
             /\ k \in DOMAIN _embedding_cache'
             /\ _embedding_cache'[k] = _embedding_cache[k]
       \/ /\ _embedding_cache' = EmptyCache
          /\ taskPc' = taskPc
          /\ reqPc' = reqPc
          /\ taskResult' = taskResult]_vars

\* the entries of two finished analyses, on three distinct texts, are all
\* in the cache
C11_Witness ==
    /\ \A r \in R : reqPc[r] \in {"returned", "failed"}
    /\ \A t \in Tasks : taskPc[t] = "done"
    /\ Cardinality(DOMAIN _embedding_cache) = 3

\* C12: the chunks of a text longer than max_chunk_length are non-empty,
\* the first starts at the first word, each later one starts chunk_overlap
\* words before the end of its predecessor and brings at least one new
\* word, so that dropping the overlap at each boundary gives the words in
\* order once each; the returned list ends at the last word; the text of
\* ExampleWords words under the configured window gives 2 chunks.
C12_ChunksReconstructText ==
    (nwords > max_chunk_length /\ chunks # <<>>) =>
        /\ chunks[1].start = 0
        /\ \A i \in 1..Len(chunks) : chunks[i].end > chunks[i].start
        /\ \A i \in 2..Len(chunks) :
              /\ chunks[i].start = chunks[i-1].end - chunk_overlap
              /\ chunks[i].end > chunks[i-1].end
        /\ chunk_pc = "returned" => chunks[Len(chunks)].end = nwords
        /\ (/\ nwords = ExampleWords
            /\ max_chunk_length = DefaultMaxChunkLength
            /\ chunk_overlap = DefaultChunkOverlap) => Len(chunks) <= 2

\* nothing but whitespace is left of text i after _preprocess_text, the
\* empty string included
BlankAfterPreprocessing(i) == Strip(ProcessedTable[i]) = <<>>

\* C13: a generate_embedding call on a text that is empty after
\* preprocessing never invokes the model and never returns a vector, and
\* no cache entry exists under the key of such a text.
C13_EmptyTextRejected ==
    /\ \A t \in Tasks :
          (taskPc[t] # "idle" /\ BlankAfterPreprocessing(TextOfTask(t))) =>
              /\ encodes[t] = 0
              /\ taskPc[t] \notin {"await_encode", "done"}
              /\ taskResult[t].vec = NoVec
    /\ \A i \in TextIds :
          BlankAfterPreprocessing(i) => KeyTable[i] \notin DOMAIN _embedding_cache

\* C14: normalizing a normalized keyword changes nothing.
C14_NormalizeIdempotent ==
    (kw_pc = "returned" /\ kw_in.fn = "_normalize_keyword") =>
        _normalize_keyword(kw_out) = kw_out

C17_KeywordLengthInRange ==
    (kw_pc = "returned" /\ kw_in.fn = "extract_keywords") =>
        \A i \in 1..Len(kw_out) :
            /\ Len(kw_out[i]) >= min_keyword_length
            /\ Len(kw_out[i]) <= max_keyword_length

\* the first occurrences of the elements of a list, in order
RECURSIVE DistinctInOrder(_)
DistinctInOrder(words) ==
    IF words = <<>> THEN <<>>
    ELSE <<words[1]>> \o
         DistinctInOrder(SelectSeq(Tail(words), LAMBDA w : w # words[1]))

FirstN(l, n) == SubSeq(l, 1, Min(n, Len(l)))

\* C18 as stated: without a linguistic model the fallback's list is the
\* first at most 20 distinct lower-cased alphabetic tokens of three or more
\* letters that are no stop word, in first-seen order, and
\* extract_keywords returns them among its keywords.
C18_FallbackListAnyLength ==
    /\ (kw_pc = "returned" /\ kw_in.fn = "_fallback_keyword_extraction") =>
          kw_out = FirstN(DistinctInOrder(
                              SelectSeq(FindAlphabeticWords(kw_in.text),
                                        LAMBDA w : w \notin fallback_stop_words)),
                          FallbackLimit)
    /\ (kw_pc = "returned" /\ kw_in.fn = "extract_keywords"
           /\ kw_in.nlp = "unavailable") =>
          Range(FirstN(DistinctInOrder(
                           SelectSeq(FindAlphabeticWords(kw_in.text),
                                     LAMBDA w : w \notin fallback_stop_words)),
                       FallbackLimit)) \subseteq Range(kw_out)

\* C18 amended: the same with the tokens of more than max_keyword_length
\* letters left out as well.
C18_FallbackListUpToMaxLength ==
    /\ (kw_pc = "returned" /\ kw_in.fn = "_fallback_keyword_extraction") =>
          kw_out = FirstN(DistinctInOrder(
                              SelectSeq(FindAlphabeticWords(kw_in.text),
                                        LAMBDA w : /\ w \notin fallback_stop_words
                                                   /\ Len(w) <= max_keyword_length)),
                          FallbackLimit)
    /\ (kw_pc = "returned" /\ kw_in.fn = "extract_keywords"
           /\ kw_in.nlp = "unavailable") =>
          Range(FirstN(DistinctInOrder(
                           SelectSeq(FindAlphabeticWords(kw_in.text),
                                     LAMBDA w : /\ w \notin fallback_stop_words
                                                /\ Len(w) <= max_keyword_length)),
                       FallbackLimit)) \subseteq Range(kw_out)

\* the fallback on a text holding a word of max_keyword_length + 1 letters
\* and "api"
C18_Witness ==
    /\ kw_pc = "returned"
    /\ kw_in.fn = "_fallback_keyword_extraction"
    /\ kw_in.text = TextLongWord
    /\ kw_out = <<K_api>>

\* C19: over the normalized keyword sets, a job keyword is matched
\* exactly when it is a resume keyword, or has more than 3 characters and
\* is a substring of a resume keyword or has one as a substring; missing
\* is the job set minus matched; both lists are sorted and free of
\* duplicates.
C19_MatchedIffExactOrFuzzy ==
    (kw_pc = "returned" /\ kw_in.fn = "match_keywords") =>
        LET resume_set == {_normalize_keyword(kw) : kw \in Range(kw_in.resume_keywords)}
            job_set == {_normalize_keyword(kw) : kw \in Range(kw_in.job_keywords)}
            expected ==
                {j \in job_set :
                    \/ j \in resume_set
                    \/ /\ Len(j) > 3
                       /\ \E r \in resume_set : IsSubstring(j, r) \/ IsSubstring(r, j)}
        IN  /\ Range(kw_out.matched) = expected
            /\ Range(kw_out.missing) = job_set \ expected
            /\ kw_out.matched = SortedLex(expected)
            /\ kw_out.missing = SortedLex(job_set \ expected)

\* resume [python, api] against job [python, docker, apis]
C19_Witness ==
    /\ kw_pc = "returned"
    /\ kw_in.fn = "match_keywords"
    /\ kw_in.resume_keywords = <<K_python, K_api>>
    /\ kw_in.job_keywords = <<K_python, K_docker, K_apis>>
    /\ kw_out.matched = <<K_apis, K_python>>
    /\ kw_out.missing = <<K_docker>>

\* C20: the coverage is 100 * |matched| / |all job keywords|, at most 100,
\* and 0 for an empty job keyword list.
C20_CoverageIsCappedRatio ==
    (kw_pc = "returned" /\ kw_in.fn = "calculate_keyword_coverage") =>
        LET m == Len(kw_in.matched_keywords)
            t == Len(kw_in.total_job_keywords)
        IN  /\ t = 0 => kw_out = 0
            /\ (t > 0 /\ m <= t) => kw_out = (100 * Scale * m) \div t
            /\ (t > 0 /\ m > t) => kw_out = 100 * Scale
            /\ kw_out >= 0 /\ kw_out <= 100 * Scale

\* 2 matched of 4 job keywords give 50; an empty job list has given 0
C20_Witness ==
    /\ kw_pc = "returned"
    /\ kw_in.fn = "calculate_keyword_coverage"
    /\ Len(kw_in.matched_keywords) = 2
    /\ Len(kw_in.total_job_keywords) = 4
    /\ kw_out = 50 * Scale

\* a call of the scorer has returned metrics
ScorerReturned ==
    /\ kw_pc = "returned"
    /\ kw_in.fn = "calculate_similarity_with_metrics"
    /\ kw_out.err = NoError

\* C21: the raw_similarity of every result of the scorer lies in [-1, 1]
\* and its percentage is ((raw_similarity + 1) / 2) * 100 clamped to
\* [0, 100], also for vectors whose computed cosine left [-1, 1]
C21_SimilarityAndPercentageClamped ==
    ScorerReturned =>
        /\ kw_out.raw_similarity \in (-Scale)..Scale
        /\ kw_out.percentage \in 0..(100 * Scale)
        /\ kw_out.percentage = ((kw_out.raw_similarity + Scale) * 100) \div 2

\* the scorer returned for two vectors whose computed cosine exceeds 1
C21_Witness ==
    /\ ScorerReturned
    /\ RawCosine(kw_in.embedding1.v, kw_in.embedding2.v) > Scale
    /\ kw_out.raw_similarity = Scale
    /\ kw_out.percentage = 100 * Scale

\* request r returned a result for two embeddings of cosine similarity 0.8
ReturnedForCosinePointEight(r) ==
    /\ reqPc[r] = "returned"
    /\ RawCosine(taskResult[<<r, "resume">>].vec.v,
                 taskResult[<<r, "job">>].vec.v) = (8 * Scale) \div 10

\* x is within a tenth of a percentage point of 90
AboutNinety(x) ==
    /\ x >= 90 * Scale - Scale \div 10
    /\ x <= 90 * Scale + Scale \div 10

\* C22 as stated: for embeddings of cosine similarity 0.8 the result of
\* analyze_compatibility has match_score about 90, confidence "high" and
\* quality "excellent"
C22_ResultHasConfidenceAndQuality ==
    \A r \in R :
        ReturnedForCosinePointEight(r) =>
            /\ AboutNinety(reqResult[r].match_score)
            /\ "confidence" \in DOMAIN reqResult[r]
            /\ reqResult[r].confidence = "high"
            /\ "match_quality" \in DOMAIN reqResult[r]
            /\ reqResult[r].match_quality = "excellent"

\* C22 amended: for embeddings of cosine similarity 0.8 the result has
\* match_score about 90 and semantic_similarity 0.8; the scorer's metrics
\* for the pair have confidence "high" and match_quality "excellent", and
\* the result carries neither of the two
C22_ScoreNinetyWithoutInterpretation ==
    \A r \in R :
        ReturnedForCosinePointEight(r) =>
            LET metrics == calculate_similarity_with_metrics(
                               taskResult[<<r, "resume">>].vec,
                               taskResult[<<r, "job">>].vec)
            IN  /\ AboutNinety(reqResult[r].match_score)
                /\ reqResult[r].semantic_similarity = (8 * Scale) \div 10
                /\ metrics.confidence = "high"
                /\ metrics.match_quality = "excellent"
                /\ DOMAIN reqResult[r] \cap {"confidence", "match_quality"} = {}

C22_Witness ==
    \E r \in R :
        /\ ReturnedForCosinePointEight(r)
        /\ reqResult[r].ok
        /\ reqResult[r].match_score = 90 * Scale

\* a call of the scorer with two vectors of different dimensions is over
ScorerCalledOnMismatch ==
    /\ kw_pc = "returned"
    /\ kw_in.fn = "calculate_similarity_with_metrics"
    /\ ~kw_in.embedding1.nan
    /\ ~kw_in.embedding2.nan
    /\ Len(kw_in.embedding1.v) # Len(kw_in.embedding2.v)

\* C23: for two embeddings of different dimensions the scorer raises its
\* error for incompatible vectors and returns no metrics
C23_MismatchedDimensionsFail ==
    ScorerCalledOnMismatch =>
        kw_out = NoMetrics(ScorerError("Incompatible dimension"))

C23_Witness ==
    /\ ScorerCalledOnMismatch
    /\ Len(kw_in.embedding1.v) = 1
    /\ Len(kw_in.embedding2.v) = 2
    /\ RawCosine(kw_in.embedding1.v, SubSeq(kw_in.embedding2.v, 1, 1)) = Scale
    /\ kw_out.err # NoError

\* a call of _preprocess_text has returned
PreprocessReturned == kw_pc = "returned" /\ kw_in.fn = "_preprocess_text"

\* str.lower() of a text
LowerText(t) == [i \in 1..Len(t) |-> Lower(t[i])]

\* C24: the output of _preprocess_text has at most max_length characters;
\* for a cleaned text of more than max_length characters it ends just
\* after the last '.' of the first max_length characters when that '.' is
\* at one of the indices 1600 to 1999, and is the first max_length
\* characters otherwise
C24_TruncatesAtSentenceInLastFifth ==
    PreprocessReturned =>
        LET cleaned == ReplaceSpecial(CollapseWhitespace(Strip(kw_in.text)))
            first == SubSeq(cleaned, 1, max_length)
            last == RFindDot(first)
        IN  /\ Len(kw_out) <= max_length
            /\ Len(cleaned) > max_length =>
                   kw_out = IF 10 * last >= 8 * max_length
                            THEN LowerText(SubSeq(first, 1, last + 1))
                            ELSE LowerText(first)

\* C26: the text _preprocess_text returns has no run of two or more
\* whitespace characters, no leading or trailing whitespace, only
\* characters of the allow-set, no upper-case letter, and preprocessing it
\* again returns it unchanged
C26_OutputNormalizedAndIdempotent ==
    PreprocessReturned =>
        /\ \A i \in 1..Len(kw_out) :
               /\ kw_out[i] \in WordChars \cup WhitespaceChars \cup AllowedPunct
               /\ Lower(kw_out[i]) = kw_out[i]
        /\ \A i \in 1..(Len(kw_out) - 1) :
               ~(IsSpace(kw_out[i]) /\ IsSpace(kw_out[i + 1]))
        /\ Len(kw_out) > 0 =>
               ~IsSpace(kw_out[1]) /\ ~IsSpace(kw_out[Len(kw_out)])
        /\ Enumerated(_preprocess_text(kw_out)) = kw_out

\* C25: GET /analysis/{analysis_id} answers with the data of an analysis
\* only when the analysis belongs to the authenticated caller
C25_AnalysisReturnedToOwnerOnly ==
    (kw_pc = "returned" /\ kw_in.fn = "get_analysis" /\ kw_out.status = 200) =>
        /\ kw_in.user_id # NoUser
        /\ kw_in.analyses[kw_in.analysis_id].user_id = kw_in.user_id

\* analyze_compatibility of request r has returned, raised or been cancelled
AnalysisOver(r) == reqPc[r] \in {"returned", "failed", "cancelled"}

\* C27: once analyze_compatibility is over, none of its two embedding
\* tasks is still running, none takes a further step and none adds an
\* entry to the cache
C27_NoEmbeddingWorkAfterCompletion ==
    [][\A r \in R :
          AnalysisOver(r) =>
              \A s \in Sides :
                  /\ taskPc[<<r, s>>] \in {"done", "failed", "cancelled"}
                  /\ taskPc'[<<r, s>>] = taskPc[<<r, s>>]
                  /\ KeyTable[TextOfTask(<<r, s>>)] \in DOMAIN _embedding_cache'
                         => \/ KeyTable[TextOfTask(<<r, s>>)] \in DOMAIN _embedding_cache
                            \/ taskPc'[<<r, s>>] = taskPc[<<r, s>>]]_vars

\* C28: in a result made from a non-empty list of job keywords,
\* keyword_coverage is 100 exactly when missing_keywords is empty
C28_FullCoverageIffNothingMissing ==
    (/\ kw_pc = "returned"
     /\ kw_in.fn = "analyze_keywords"
     /\ extract_keywords(kw_in.nlp, kw_in.job_description, kw_in.job_doc) # <<>>)
        => (kw_out.keyword_coverage = 100 * Scale <=> kw_out.missing_keywords = <<>>)

\* C29: a generate_response call that fails after its last retry adds
\* exactly one to failure_count, and the breaker goes from closed to open
\* only when failure_threshold calls have failed in a row
C29_ExhaustedCallCountsOnce ==
    [][/\ \A c \in Calls :
             (/\ callPc[c] = "in_flight"
              /\ callPc'[c] = "idle"
              /\ callOutcome'[c] = "retries_exhausted")
                 => circuit_breaker'.failure_count
                        = circuit_breaker.failure_count + 1
       /\ (circuit_breaker.state = "closed" /\ circuit_breaker'.state = "open")
              => failed_calls' >= failure_threshold]_vars

\* C30: while the breaker is open and recovery_timeout has not passed
\* since the last recorded failure, no call sends a request
C30_NoRequestWhileOpen ==
    [][\A c \in Calls :
          (callPc[c] # "in_flight" /\ callPc'[c] = "in_flight") =>
              ~(/\ circuit_breaker.state = "open"
                /\ now - circuit_breaker.last_failure_time < recovery_timeout)]_vars

====
